---- MODULE Spec2Model ----
(***************************************************************************)
(* Model of the launch tracker's append-to-remote-CSV protocol             *)
(* (bot.py: update_github_csv and its caller handle_confirmation).         *)
(*                                                                         *)
(* Text is a sequence of one-character strings.  The remote file is the    *)
(* GitHub contents API as the code uses it: get_contents, create_file      *)
(* and update_file conditioned on the blob sha.                            *)
(***************************************************************************)
EXTENDS Integers, Sequences, FiniteSets, TLC

\* ------------------------------------------------------------------ text

COMMA == ","
QUOTE == "\""
NL    == "\n"
CR    == "\r"

\* csv.writer's default dialect ("excel"): lineterminator '\r\n'.
LineTerminator == <<CR, NL>>

\* str.endswith("\n")
EndsWithNewline(s) == Len(s) > 0 /\ s[Len(s)] = NL

\* The characters that make csv.writer quote a field under QUOTE_MINIMAL:
\* the delimiter, the quote character and the line terminator's characters.
NeedsQuote(f) == \E i \in 1..Len(f) : f[i] \in {COMMA, QUOTE, CR, NL}

\* A faulty variant of DoubleQuotes: embedded quotes are written as they are.
DoubleQuotes_Single(f) == f

RECURSIVE DoubleQuotes(_)
\* doublequote=True: every quote character of the field is written twice.
DoubleQuotes(f) ==
    IF f = <<>> THEN <<>>
    ELSE (IF Head(f) = QUOTE THEN <<QUOTE, QUOTE>> ELSE <<Head(f)>>)
         \o DoubleQuotes(Tail(f))

\* One field as csv.writer writes it.
WriteField(f) ==
    IF NeedsQuote(f) THEN <<QUOTE>> \o DoubleQuotes(f) \o <<QUOTE>> ELSE f

RECURSIVE JoinFields(_)
\* The fields of a row, separated by the delimiter.
JoinFields(fs) ==
    IF fs = <<>> THEN <<>>
    ELSE IF Len(fs) = 1 THEN WriteField(fs[1])
    ELSE WriteField(fs[1]) \o <<COMMA>> \o JoinFields(Tail(fs))

\* writer.writerow(new_row_list): the row and the line terminator.
WriteRow(fs) == JoinFields(fs) \o LineTerminator

\* ------------------------------------------------------------------ reader

\* A CSV reader (pandas.read_csv / csv.reader rules: a quoted field may hold
\* delimiters and line breaks, "" inside quotes is one quote, a record ends at
\* \n, \r or \r\n, blank lines are skipped).  st is the parser's state:
\*   mode  "SR" start of record, "SF" start of field, "IF" in unquoted field,
\*         "QF" in quoted field, "QQ" quote seen in quoted field,
\*         "CR" carriage return seen after a record
\*   fld   the field being read, row the fields read, rows the records read
ParseStep(st, c) ==
    LET endField  == [st EXCEPT !.row = Append(st.row, st.fld), !.fld = <<>>]
        endRecord == [mode |-> IF c = CR THEN "CR" ELSE "SR", fld |-> <<>>,
                      row |-> <<>>,
                      rows |-> Append(st.rows, Append(st.row, st.fld))]
    IN  CASE st.mode \in {"SR", "CR"} ->
               IF c = NL \/ c = CR THEN [st EXCEPT !.mode = IF c = CR THEN "CR" ELSE "SR"]
               ELSE IF c = QUOTE THEN [st EXCEPT !.mode = "QF"]
               ELSE IF c = COMMA THEN [endField EXCEPT !.mode = "SF"]
               ELSE [st EXCEPT !.mode = "IF", !.fld = <<c>>]
          [] st.mode = "SF" ->
               IF c = NL \/ c = CR THEN endRecord
               ELSE IF c = QUOTE THEN [st EXCEPT !.mode = "QF"]
               ELSE IF c = COMMA THEN [endField EXCEPT !.mode = "SF"]
               ELSE [st EXCEPT !.mode = "IF", !.fld = <<c>>]
          [] st.mode = "IF" ->
               IF c = NL \/ c = CR THEN endRecord
               ELSE IF c = COMMA THEN [endField EXCEPT !.mode = "SF"]
               ELSE [st EXCEPT !.fld = Append(st.fld, c)]
          [] st.mode = "QF" ->
               IF c = QUOTE THEN [st EXCEPT !.mode = "QQ"]
               ELSE [st EXCEPT !.fld = Append(st.fld, c)]
          [] st.mode = "QQ" ->
               IF c = QUOTE THEN [st EXCEPT !.mode = "QF", !.fld = Append(st.fld, c)]
               ELSE IF c = COMMA THEN [endField EXCEPT !.mode = "SF"]
               ELSE IF c = NL \/ c = CR THEN endRecord
               ELSE [st EXCEPT !.mode = "IF", !.fld = Append(st.fld, c)]

RECURSIVE ParseRange(_, _, _, _)
\* The parser's state after reading s[lo..hi] from state st, one character
\* after the other.  The range is halved, and st is looked at before it is
\* passed on, only to keep the evaluation shallow; no mode is "".
ParseRange(st, s, lo, hi) ==
    IF lo > hi \/ st.mode = "" THEN st
    ELSE IF lo = hi THEN ParseStep(st, s[lo])
    ELSE LET mid == (lo + hi) \div 2
         IN  ParseRange(ParseRange(st, s, lo, mid), s, mid + 1, hi)

ParseFrom(s) ==
    ParseRange([mode |-> "SR", fld |-> <<>>, row |-> <<>>, rows |-> <<>>], s, 1, Len(s))

\* The records of a text; a last record without a line break counts.
ParseCsv(s) ==
    LET st == ParseFrom(s)
    IN  IF st.mode \in {"SR", "CR"} THEN st.rows
        ELSE Append(st.rows, Append(st.row, st.fld))

\* ------------------------------------------------------------------ records

HEADER_FIELDS ==
    << <<"D", "a", "t", "e">>,
       <<"R", "e", "t", "a", "i", "l", "e", "r">>,
       <<"T", "r", "a", "n", "c", "h", "e">>,
       <<"P", "a", "g", "e", "_", "C", "o", "u", "n", "t">>,
       <<"A", "p", "p", "r", "o", "v", "e", "r">>,
       <<"S", "l", "a", "c", "k", "_", "L", "i", "n", "k">> >>

\* "Date,Retailer,Tranche,Page_Count,Approver,Slack_Link\n"
CSV_HEADER == JoinFields(HEADER_FIELDS) \o <<NL>>

\* The rows the two confirmation events of the model log (new_row_list:
\* date, retailer, tranche, count, approver, link).  Record A's retailer
\* holds a comma and a quote, record B's approver a line break.
Threads == {"A", "B"}

\* The calls of the specification with three concurrent confirmations.
ThreeThreads == {"A", "B", "C"}

new_row_list(t) ==
    IF t = "A"
    THEN << <<"1">>, <<"a", COMMA, QUOTE>>, <<"T", "1">>, <<"5">>, <<"J">>, <<"x">> >>
    ELSE IF t = "B"
    THEN << <<"2">>, <<"b">>, <<"T", "2">>, <<"0">>, <<"K", NL, "L">>, <<"y">> >>
    ELSE << <<"3">>, <<"c">>, <<"T", "3">>, <<"8">>, <<"M">>, <<"w">> >>

\* ------------------------------------------------------------------ bounds

\* How many rows writers other than the modelled calls append.
MaxOther == 2

Digit(n) == CASE n = 0 -> "0" [] n = 1 -> "1" [] n = 2 -> "2" [] n = 3 -> "3"
              [] n = 4 -> "4" [] OTHER -> "9"

\* The n-th row of another writer (another bot process logging a launch).
OtherRow(n) == << <<"9">>, <<"o">>, <<"T", Digit(n)>>, <<"7">>, <<"Z">>, <<"z">> >>

\* ------------------------------------------------------------------ state

VARIABLES
    remote,        \* the file launches.csv in the repository: [exists, content]
    pc,            \* per call: where update_github_csv stands
    attempt,       \* per call: the loop variable of `for attempt in range(max_retries)`
    csv_data,      \* per call: local csv_data
    sha,           \* per call: local sha
    file_exists,   \* per call: local file_exists
    ret,           \* per call: "none", "True", "False" (returned) or "raised"
    trace,         \* history, per call: the backend steps and waits it made
    commits,       \* history: the writes the backend accepted, in order
    otherCount,    \* rows appended by other writers so far
    initial,       \* history: the file as it was before any call
    row_in,        \* serialization check: the row handed to writer.writerow
    row_text,      \* serialization check: the text writerow produced
    row_back,      \* serialization check: the records read back from the text
    rt_pc,         \* serialization check: "off", "start", "written", "parsed"
    handler,       \* per confirmation event: where handle_confirmation stands
    report,        \* per confirmation event: what background_update told the user
    dash,          \* the dashboard session: its loaded data and its save
    during         \* history, per call: writes of others accepted while it ran

\* The state of the append protocol and the state of the serialization check.
callvars == <<remote, pc, attempt, csv_data, sha, file_exists, ret, trace, commits,
              otherCount, initial>>
rtvars == <<row_in, row_text, row_back, rt_pc>>

botvars == <<handler, report>>

vars == <<callvars, rtvars, botvars, dash, during>>

max_retries == 3

\* GithubException.status of a rejected sha precondition.
CONFLICT == 409
\* Statuses of rejections that are not conflicts (validation, permission, server).
OtherStatuses == {403, 422, 500}

None == <<"None">>

\* The version token of a content: the git blob sha, a function of the content
\* alone, taken to be collision-free.
BlobSha(content) == <<"sha">> \o content

Absent == [exists |-> FALSE, content |-> <<>>]
File(content) == [exists |-> TRUE, content |-> content]

\* A faulty variant of UpdatedContent: the existing data are never written back.
UpdatedContent_RowOnly(data, exists, row) == WriteRow(row)

\* A faulty variant of UpdatedContent: the header row is written on every attempt.
UpdatedContent_HeaderEachTime(data, exists, row) ==
    (IF exists
     THEN data \o (IF ~EndsWithNewline(data) THEN <<NL>> ELSE <<>>)
     ELSE <<>>)
    \o CSV_HEADER \o WriteRow(row)

\* A faulty variant of UpdatedContent: a newline is put after the existing
\* data whether or not they end with one.
UpdatedContent_AlwaysNewline(data, exists, row) ==
    (IF exists THEN data \o <<NL>> ELSE <<>>) \o WriteRow(row)

\* Lines 84-97: the content the attempt writes.  The existing data are written
\* to the buffer only under file_exists; the row follows.
UpdatedContent(data, exists, row) ==
    (IF exists
     THEN data \o (IF ~EndsWithNewline(data) THEN <<NL>> ELSE <<>>)
     ELSE <<>>)
    \o WriteRow(row)

\* ------------------------------------------------------------------ init

InitialFiles ==
    { Absent,
      File(CSV_HEADER),
      File(JoinFields(HEADER_FIELDS)) }

\* The handler of a confirmation event before it has run; for a call whose
\* thread runs from the start, after it has started the thread and returned.
HandlerAtEvent == [at |-> 1, acked |-> FALSE, threads |-> 0, raised |-> FALSE]
HandlerReturned == [at |-> 4, acked |-> TRUE, threads |-> 1, raised |-> FALSE]

\* The dashboard has loaded nothing.
DashIdle == [pc |-> "start", df |-> <<>>, loaded |-> Absent, loadedAt |-> 0,
             content |-> <<>>, seen |-> Absent, sha |-> None, ret |-> "none"]

\* No call of update_github_csv by the events T has begun.
InitCallsOf(T) ==
    /\ initial = remote
    /\ pc = [t \in T |-> "idle"]
    /\ attempt = [t \in T |-> 0]
    /\ csv_data = [t \in T |-> <<>>]
    /\ sha = [t \in T |-> None]
    /\ file_exists = [t \in T |-> FALSE]
    /\ ret = [t \in T |-> "none"]
    /\ trace = [t \in T |-> <<>>]
    /\ commits = <<>>
    /\ otherCount = 0
    /\ report = [t \in T |-> <<>>]
    /\ during = [t \in T |-> 0]
    /\ dash = DashIdle

InitCalls ==
    /\ InitCallsOf(Threads)
    /\ handler = [t \in Threads |-> HandlerReturned]

Init ==
    /\ remote \in InitialFiles
    /\ InitCalls
    /\ row_in = <<>>
    /\ row_text = <<>>
    /\ row_back = <<>>
    /\ rt_pc = "off"

\* ------------------------------------------------------------------ actions

\* Lines 65-66: Github(GITHUB_TOKEN), g.get_repo(...), outside every try: a
\* failure here leaves update_github_csv as an exception.
GetRepoOk(t) ==
    /\ pc[t] = "idle"
    /\ pc' = [pc EXCEPT ![t] = "fetch"]
    /\ attempt' = [attempt EXCEPT ![t] = 0]
    /\ UNCHANGED <<ret, trace, remote, csv_data, sha, file_exists, commits, otherCount, initial, rtvars, botvars, dash, during>>

GetRepoRaises(t) ==
    /\ pc[t] = "idle"
    /\ pc' = [pc EXCEPT ![t] = "raised"]
    /\ ret' = [ret EXCEPT ![t] = "raised"]
    /\ attempt' = [attempt EXCEPT ![t] = 0]
    /\ UNCHANGED <<trace, remote, csv_data, sha, file_exists, commits, otherCount, initial, rtvars, botvars, dash, during>>

GetRepo(t) == GetRepoOk(t) \/ GetRepoRaises(t)

\* Lines 72-81: get_contents; the bare except takes every failure (the file
\* is missing, or any other error) as "file doesn't exist yet".
\* get_contents returns the file.
FetchFound(t) ==
    /\ pc[t] = "fetch"
    /\ remote.exists
    /\ csv_data' = [csv_data EXCEPT ![t] = remote.content]
    /\ sha' = [sha EXCEPT ![t] = BlobSha(remote.content)]
    /\ file_exists' = [file_exists EXCEPT ![t] = TRUE]
    /\ trace' = [trace EXCEPT ![t] = Append(@, "fetch_found")]
    /\ pc' = [pc EXCEPT ![t] = "write"]
    /\ UNCHANGED <<remote, attempt, ret, commits, otherCount, initial, rtvars, botvars, dash, during>>

\* get_contents raises: there is no file ("fetch_none"), or there is one and
\* the request failed for another reason ("fetch_failed").
FetchExcept(t) ==
    /\ pc[t] = "fetch"
    /\ csv_data' = [csv_data EXCEPT ![t] = CSV_HEADER]
    /\ sha' = [sha EXCEPT ![t] = None]
    /\ file_exists' = [file_exists EXCEPT ![t] = FALSE]
    /\ trace' = [trace EXCEPT ![t] =
                    Append(@, IF remote.exists THEN "fetch_failed" ELSE "fetch_none")]
    /\ pc' = [pc EXCEPT ![t] = "write"]
    /\ UNCHANGED <<remote, attempt, ret, commits, otherCount, initial, rtvars, botvars, dash, during>>

Fetch(t) == FetchFound(t) \/ FetchExcept(t)

\* What the backend answers to a write: status 200/201 accepts it, any other
\* status is the status of the GithubException raised; kind "Exception" is a
\* failure that is no GithubException (connection error, timeout).
Accepted(r) == r.kind = "ok"
Ok(status) == [kind |-> "ok", status |-> status]
GithubException(status) == [kind |-> "GithubException", status |-> status]
OtherException == [kind |-> "Exception", status |-> 0]

\* A faulty variant of UpdateFile: the write is not conditioned on the sha.
UpdateFile_NoCheck(file, expected) == {Ok(200)}

\* repo.update_file(path, message, content, sha): accepted iff sha is the blob
\* sha of the file as it is now, a conflict otherwise.
UpdateFile(file, expected) ==
    IF file.exists /\ BlobSha(file.content) = expected
    THEN {Ok(200)}
    ELSE {GithubException(CONFLICT)}

\* A faulty variant of CreateFile: a create over an existing file replaces it.
CreateFile_Overwrites(file) == {Ok(201)}

\* repo.create_file(path, message, content): accepted iff there is no file;
\* on an existing file the request carries no sha and is rejected, as a
\* conflict or as a validation failure.
CreateFile(file) ==
    IF ~file.exists
    THEN {Ok(201)}
    ELSE {GithubException(CONFLICT), GithubException(422)}

\* Every write may also fail for a reason of its own.
Faults == {GithubException(st) : st \in OtherStatuses} \cup {OtherException}

\* A faulty variant of IsConflict: every GithubException is retried.
IsConflict_AnyStatus(e) == e.status >= 400

\* Lines 109-116: the handler of GithubException: retry on a conflict, give
\* up on anything else.
IsConflict(e) == e.status = CONFLICT

\* Line 116: what the call returns on a hard failure.
ReturnOnError == "False"

\* A faulty variant of ReturnOnExhausted: running out of attempts is reported as success.
ReturnOnExhausted_True == "True"

\* Line 117: what the call returns when the loop runs out.
ReturnOnExhausted == "False"

\* A faulty variant of LoopContinues: the call gives up after two attempts.
LoopContinues_TwoAttempts(att) == att + 2 < max_retries

\* A faulty variant of LoopContinues: one attempt too many.
LoopContinues_OneMore(att) == att + 1 <= max_retries

\* Line 69: `for attempt in range(max_retries)`: after attempt att (from 0),
\* is there another one?
LoopContinues(att) == att + 1 < max_retries

\* History only: the name under which trace records the backend's answer.
AnswerEvent(r) ==
    IF Accepted(r) THEN "accepted"
    ELSE IF r.kind # "GithubException" THEN "exception"
    ELSE IF r.status = 409 THEN "conflict" ELSE "error"

\* A faulty variant of ReturnOnSuccess: False although the write was accepted.
ReturnOnSuccess_False == "False"

\* Line 107: what the call returns after an accepted write.
ReturnOnSuccess == "True"

\* A faulty variant of RetryTarget: the retry repeats the write with what the
\* earlier attempt fetched.
RetryTarget_Write == "write"

\* Lines 112-113, 69-73: where `continue` takes the call: to the top of the
\* loop body, the fetch.
RetryTarget == "fetch"

\* Lines 84-97 for call t: the content its pending write carries.
IssuedContent(t) == UpdatedContent(csv_data[t], file_exists[t], new_row_list(t))

\* Lines 99-116: the write of one attempt and what the call does with the
\* answer; faults are the failures the backend may answer with on its own.
WriteWith(t, faults) ==
    /\ pc[t] = "write"
    /\ LET content == IssuedContent(t)
           answers == (IF file_exists[t] THEN UpdateFile(remote, sha[t])
                       ELSE CreateFile(remote)) \cup faults
       IN  \E r \in answers :
             /\ trace' = [trace EXCEPT ![t] = Append(@, AnswerEvent(r))]
             /\ IF Accepted(r)
                THEN /\ remote' = File(content)
                     /\ commits' = Append(commits,
                           [by |-> t, row |-> new_row_list(t), before |-> remote,
                            content |-> content,
                            data |-> csv_data[t], sha |-> sha[t],
                            exists |-> file_exists[t]])
                     /\ pc' = [pc EXCEPT ![t] = "done"]
                     /\ ret' = [ret EXCEPT ![t] = ReturnOnSuccess]
                ELSE /\ UNCHANGED <<remote, commits>>
                     /\ IF r.kind = "GithubException"
                        THEN IF IsConflict(r)
                             THEN /\ pc' = [pc EXCEPT ![t] = "sleep"]
                                  /\ ret' = ret
                             ELSE /\ pc' = [pc EXCEPT ![t] = "done"]
                                  /\ ret' = [ret EXCEPT ![t] = ReturnOnError]
                        ELSE /\ pc' = [pc EXCEPT ![t] = "raised"]
                             /\ ret' = [ret EXCEPT ![t] = "raised"]
    /\ UNCHANGED <<attempt, csv_data, sha, file_exists, otherCount, initial, rtvars, botvars, dash>>

Write(t) == WriteWith(t, Faults) /\ UNCHANGED during

\* Lines 112-113 and 69, 117: time.sleep(1), continue; the loop goes on to the
\* next attempt or, after the last one, falls through to `return False`.
Sleep(t) ==
    /\ pc[t] = "sleep"
    /\ attempt' = [attempt EXCEPT ![t] = @ + 1]
    /\ trace' = [trace EXCEPT ![t] = Append(@, "sleep")]
    /\ IF LoopContinues(attempt[t])
       THEN /\ pc' = [pc EXCEPT ![t] = RetryTarget]
            /\ ret' = ret
       ELSE /\ pc' = [pc EXCEPT ![t] = "done"]
            /\ ret' = [ret EXCEPT ![t] = ReturnOnExhausted]
    /\ UNCHANGED <<remote, csv_data, sha, file_exists, commits, otherCount, initial, rtvars, botvars, dash, during>>

\* Another writer of the file (a second bot process) appends a row of its own.
OtherAppend ==
    /\ remote.exists
    /\ otherCount < MaxOther
    /\ LET content == UpdatedContent(remote.content, TRUE, OtherRow(otherCount))
       IN  /\ remote' = File(content)
           /\ commits' = Append(commits,
                 [by |-> "other", row |-> OtherRow(otherCount), before |-> remote,
                  content |-> content,
                  data |-> remote.content, sha |-> BlobSha(remote.content),
                  exists |-> TRUE])
    /\ otherCount' = otherCount + 1
    /\ UNCHANGED <<pc, attempt, csv_data, sha, file_exists, ret, trace, initial, rtvars, botvars, dash, during>>

Next ==
    \/ \E t \in Threads : GetRepo(t) \/ Fetch(t) \/ Write(t) \/ Sleep(t)
    \/ OtherAppend

Spec == Init /\ [][Next]_vars

\* ------------------------------------------------------------------ Slack handler

\* A faulty variant of HandlerSteps: the acknowledgment comes last.
HandlerSteps_AckLast == <<"prepare", "start", "ack">>

\* Lines 147-190: the statements of handle_confirmation in program order:
\* ack(); the row from the button's value, users_info and the permalink;
\* threading.Thread(target=background_update).start(), after which it returns.
HandlerSteps == <<"ack", "prepare", "start">>

HandlerAt(t, step) ==
    /\ ~handler[t].raised
    /\ handler[t].at <= Len(HandlerSteps)
    /\ HandlerSteps[handler[t].at] = step

\* Line 147: ack().
Ack(t) ==
    /\ HandlerAt(t, "ack")
    /\ handler' = [handler EXCEPT ![t].acked = TRUE, ![t].at = @ + 1]
    /\ UNCHANGED <<callvars, rtvars, report, dash, during>>

\* Lines 150-169: the row is put together. The unpacking of the button's value
\* and users_info are outside every try: when one raises, the handler ends
\* there and starts no thread. A failed permalink only changes the link text.
Prepare(t) ==
    /\ HandlerAt(t, "prepare")
    /\ \/ handler' = [handler EXCEPT ![t].at = @ + 1]
       \/ handler' = [handler EXCEPT ![t].raised = TRUE]
    /\ UNCHANGED <<callvars, rtvars, report, dash, during>>

\* Line 190: the thread of background_update is started and the handler returns.
StartThread(t) ==
    /\ HandlerAt(t, "start")
    /\ handler' = [handler EXCEPT ![t].threads = @ + 1, ![t].at = @ + 1]
    /\ UNCHANGED <<callvars, rtvars, report, dash, during>>

\* The handler is over: it returned or an exception ended it.
HandlerOver(t) == handler[t].raised \/ handler[t].at > Len(HandlerSteps)

\* Line 174: update_github_csv(row), run by the thread once it is started.
BackgroundCall(t) ==
    /\ handler[t].threads > 0
    /\ (GetRepo(t) \/ Fetch(t) \/ Write(t) \/ Sleep(t))

\* Lines 176-188: `if success:` chat_update with the Logged text, else
\* chat_postMessage with the Failed-to-log text.
ReportFor(success) == IF success = "True" THEN "Logged" ELSE "Failed"

\* Lines 174-188: background_update goes on after update_github_csv returned.
\* When the call raised, the thread ended with it and nothing follows.
Report(t) ==
    /\ pc[t] = "done"
    /\ report[t] = <<>>
    /\ report' = [report EXCEPT ![t] = Append(@, ReportFor(ret[t]))]
    /\ UNCHANGED <<callvars, rtvars, handler, dash, during>>

InitBot ==
    /\ remote \in InitialFiles
    /\ InitCallsOf(Threads)
    /\ handler = [t \in Threads |-> HandlerAtEvent]
    /\ row_in = <<>>
    /\ row_text = <<>>
    /\ row_back = <<>>
    /\ rt_pc = "off"

NextBot ==
    \E t \in Threads : Ack(t) \/ Prepare(t) \/ StartThread(t) \/ BackgroundCall(t) \/ Report(t)

SpecBot == InitBot /\ [][NextBot]_vars

\* ------------------------------------------------------------------ dashboard

DIGITS == {"0", "1", "2", "3", "4", "5", "6", "7", "8", "9"}

\* pd.to_numeric(..., errors='coerce') gives a number for a field of digits.
IsNumber(f) == f # <<>> /\ \A i \in 1..Len(f) : f[i] \in DIGITS

\* Lines 40-41 as to_csv prints them again. Date: the bot writes
\* "%Y-%m-%d %H:%M:%S" and line 53 prints the same format, so a date of the
\* bot is printed as it was read. Page_Count: a column of whole numbers is
\* printed as read; one field that is no number makes the column a float
\* column, 0 in place of that field and ".0" after every value.
LoadedRows(rows) ==
    IF \A i \in 1..Len(rows) : IsNumber(rows[i][4])
    THEN rows
    ELSE [i \in 1..Len(rows) |->
            [rows[i] EXCEPT ![4] =
                (IF IsNumber(@) THEN @ ELSE <<"0">>) \o <<".", "0">>]]

\* Lines 27-47: load_data. A status other than 200 gives the empty frame, and
\* so does any exception: no text at all, or a first line without the Date
\* column (df['Date'] raises KeyError).
LoadData(file) ==
    IF ~file.exists THEN <<>>
    ELSE LET rows == ParseCsv(file.content)
         IN  IF rows = <<>> \/ rows[1] # HEADER_FIELDS \/
                \E i \in 1..Len(rows) : Len(rows[i]) # Len(HEADER_FIELDS)
             THEN <<>>
             ELSE LoadedRows(Tail(rows))

\* Line 188: the row of the Add Missing Launch form.
ManualRow ==
    << <<"4">>, <<"m">>, <<"T", "1">>, <<"0">>, <<"M", "A">>, <<"M", "E">> >>

\* Lines 187-189 and 198-213: what the page hands to save_data_to_github: the
\* loaded frame with the form's row added, or the edited frame, here the
\* loaded frame with its first row deleted.
DfToSave(df) ==
    {df \o <<ManualRow>>} \cup (IF df = <<>> THEN {} ELSE {Tail(df)})

RECURSIVE CsvLines(_)
CsvLines(rows) ==
    IF rows = <<>> THEN <<>>
    ELSE JoinFields(rows[1]) \o <<NL>> \o CsvLines(Tail(rows))

\* Lines 55-57: df_copy.to_csv(csv_buffer, index=False): the column names,
\* then the rows, every line ended by "\n".
ToCsv(rows) == JoinFields(HEADER_FIELDS) \o <<NL>> \o CsvLines(rows)

\* A faulty variant of SaveToken: the token of the content that was loaded.
SaveToken_FromLoad(file, loaded) == BlobSha(loaded.content)

\* Lines 63-64: the sha handed to update_file is contents.sha of the
\* get_contents made inside save_data_to_github.
SaveToken(file, loaded) == BlobSha(file.content)

\* Line 85: df = load_data(), on every run of the page; st.cache_data(ttl=60)
\* may instead hand back what an earlier run loaded, which is the frame the
\* session already holds.
DashLoad ==
    /\ dash.pc \in {"start", "loaded"}
    /\ dash' = [dash EXCEPT !.pc = "loaded", !.df = LoadData(remote),
                            !.loaded = remote, !.loadedAt = Len(commits)]
    /\ UNCHANGED <<callvars, rtvars, botvars, during>>

\* Lines 51-63: save_data_to_github up to get_contents, which raises when
\* there is no file; the except of line 68 then returns False.
DashGetContents ==
    /\ dash.pc = "loaded"
    /\ \E df \in DfToSave(dash.df) :
          IF remote.exists
          THEN dash' = [dash EXCEPT !.pc = "update", !.content = ToCsv(df),
                                    !.seen = remote,
                                    !.sha = SaveToken(remote, dash.loaded)]
          ELSE dash' = [dash EXCEPT !.pc = "saved", !.content = ToCsv(df),
                                    !.ret = "False"]
    /\ UNCHANGED <<callvars, rtvars, botvars, during>>

\* Lines 64-70: update_file with that sha, then True; False on any exception.
DashUpdateFile ==
    /\ dash.pc = "update"
    /\ \E r \in UpdateFile(remote, dash.sha) :
          IF Accepted(r)
          THEN /\ remote' = File(dash.content)
               /\ commits' = Append(commits,
                     [by |-> "dashboard", row |-> <<>>, before |-> remote,
                      content |-> dash.content, data |-> dash.loaded.content,
                      sha |-> dash.sha, exists |-> TRUE])
               /\ dash' = [dash EXCEPT !.pc = "saved", !.ret = "True"]
          ELSE /\ dash' = [dash EXCEPT !.pc = "saved", !.ret = "False"]
               /\ UNCHANGED <<remote, commits>>
    /\ UNCHANGED <<pc, attempt, csv_data, sha, file_exists, ret, trace, otherCount, initial, rtvars, botvars, during>>

\* update_github_csv when the backend answers every write on its merits.
WriteNoFault(t) == WriteWith(t, {}) /\ UNCHANGED during

InitDash ==
    /\ remote \in {f \in InitialFiles : f.exists}
    /\ InitCalls
    /\ row_in = <<>>
    /\ row_text = <<>>
    /\ row_back = <<>>
    /\ rt_pc = "off"

NextDash ==
    \/ \E t \in Threads : GetRepoOk(t) \/ FetchFound(t) \/ WriteNoFault(t) \/ Sleep(t)
    \/ DashLoad
    \/ DashGetContents
    \/ DashUpdateFile

SpecDash == InitDash /\ [][NextDash]_vars

\* ------------------------------------------------------------------ three calls

\* The call is between its entry and its return.
Executing(t) == pc[t] \in {"fetch", "write", "sleep"}

\* The write of a call, counted for every other call that is executing
\* when the backend accepts it.
CountedWrite(t) ==
    /\ WriteWith(t, {})
    /\ during' = [u \in DOMAIN during |->
                    IF commits' # commits /\ u # t /\ Executing(u)
                    THEN during[u] + 1 ELSE during[u]]

\* One step of the thread of event t: lines 174 and 60-117, with a backend
\* that is reachable and answers every request on its merits.
CallStep(t) == GetRepoOk(t) \/ FetchFound(t) \/ CountedWrite(t) \/ Sleep(t)

InitFair ==
    /\ remote \in {f \in InitialFiles : f.exists}
    /\ InitCallsOf(ThreeThreads)
    /\ handler = [t \in ThreeThreads |-> HandlerReturned]
    /\ row_in = <<>>
    /\ row_text = <<>>
    /\ row_back = <<>>
    /\ rt_pc = "off"

NextFair == \E t \in ThreeThreads : CallStep(t)

\* Line 190 starts one thread per event; every started thread keeps running.
SpecFair ==
    InitFair /\ [][NextFair]_vars /\ \A t \in ThreeThreads : WF_vars(CallStep(t))

\* ------------------------------------------------------------------ serialization

\* The longest retailer field the serialization check tries.
MaxFieldLen == 3

Alphabet == {"a", COMMA, QUOTE, NL, CR}

StringsUpTo(n) == UNION {[1..k -> Alphabet] : k \in 0..n}

\* The rows the check serializes: every retailer up to MaxFieldLen characters,
\* every approver of at most one character, the other fields plain or with a
\* quote and a line break.
OtherFields == {<<"a">>, <<QUOTE, NL>>}

RowsToCheck ==
    {<<d, r, t, c, a, l>> :
        d \in OtherFields, r \in StringsUpTo(MaxFieldLen), t \in OtherFields,
        c \in OtherFields, a \in StringsUpTo(1), l \in OtherFields}

InitCsv ==
    /\ remote = Absent
    /\ InitCalls
    /\ row_in \in RowsToCheck
    /\ row_text = <<>>
    /\ row_back = <<>>
    /\ rt_pc = "start"

\* Line 96: writer.writerow(new_row_list) into the empty buffer.
Serialize ==
    /\ rt_pc = "start"
    /\ row_text' = WriteRow(row_in)
    /\ rt_pc' = "written"
    /\ UNCHANGED <<callvars, row_in, row_back, botvars, dash, during>>

\* The text read back as CSV.
ParseBack ==
    /\ rt_pc = "written"
    /\ row_back' = ParseCsv(row_text)
    /\ rt_pc' = "parsed"
    /\ UNCHANGED <<callvars, row_in, row_text, botvars, dash, during>>

NextCsv == Serialize \/ ParseBack

SpecCsv == InitCsv /\ [][NextCsv]_vars

\* ------------------------------------------------------------------ history

IsFetch(e) == e \in {"fetch_found", "fetch_none", "fetch_failed"}
IsWrite(e) == e \in {"accepted", "conflict", "error", "exception"}

Fetches(t) == SelectSeq(trace[t], IsFetch)
Writes(t)  == SelectSeq(trace[t], IsWrite)
Sleeps(t)  == SelectSeq(trace[t], LAMBDA e : e = "sleep")
\* The fetches and writes of a call, in the order it made them.
BackendSteps(t) == SelectSeq(trace[t], LAMBDA e : IsFetch(e) \/ IsWrite(e))

\* The accepted writes of a call.
CommitsBy(t) == SelectSeq(commits, LAMBDA c : c.by = t)

\* How often a row occurs among the records of a text.
Occurrences(row, content) ==
    LET rows == ParseCsv(content)
    IN  Cardinality({i \in 1..Len(rows) : rows[i] = row})

Returned(t) == pc[t] = "done"
LastWrite(t) == Writes(t)[Len(Writes(t))]

\* The call gave up after a conflict on its last attempt / on a hard failure.
ConflictExhausted(t) == Returned(t) /\ Writes(t) # <<>> /\ LastWrite(t) = "conflict"
HardFailed(t) == Returned(t) /\ Writes(t) # <<>> /\ LastWrite(t) = "error"

\* ------------------------------------------------------------------ claims

\* C1: an append against a file that does not exist creates the header row
\* followed by exactly this call's row, and the next append yields the header
\* and two data rows.
C1_CreateWritesHeaderThenRow ==
    (~initial.exists /\ commits # <<>>) =>
        /\ commits[1].content = CSV_HEADER \o WriteRow(commits[1].row)
        /\ Len(commits) >= 2 =>
             ParseCsv(commits[2].content)
                = <<HEADER_FIELDS, commits[1].row, commits[2].row>>

\* C2: on an existing file, a call whose first update is rejected as a
\* conflict (the file changed between its fetch and its write) and whose
\* second write is accepted returns True, and the file then holds this call's
\* row and every row the other writers added, each exactly once.
C2_Scenario(t) ==
    /\ initial.exists
    /\ BackendSteps(t) = <<"fetch_found", "conflict", "fetch_found", "accepted">>

C2_ConflictRetryKeepsBothRows ==
    \A t \in Threads :
        C2_Scenario(t) =>
            /\ ret[t] = "True"
            /\ Occurrences(new_row_list(t), remote.content) = 1
            /\ \A i \in 1..Len(commits) :
                   Occurrences(commits[i].row, remote.content) = 1

C2_Witness ==
    \E t \in Threads :
        /\ C2_Scenario(t)
        /\ Len(commits) >= 2
        /\ commits[Len(commits)].by = t
        /\ Occurrences(commits[1].row, remote.content) = 1

\* C3: a call makes at most 3 attempts, each one fetch followed by at most
\* one write; a call all of whose writes were rejected as conflicts has made
\* exactly 3 fetch/write pairs and returned False.
C3_Alternate(t) ==
    \A i \in 1..Len(BackendSteps(t)) :
        IF i % 2 = 1 THEN IsFetch(BackendSteps(t)[i]) ELSE IsWrite(BackendSteps(t)[i])

C3_AtMostThreeAttempts ==
    \A t \in Threads :
        /\ Len(Fetches(t)) <= 3
        /\ C3_Alternate(t)
        /\ (pc[t] \in {"done", "raised"} /\ Fetches(t) # <<>>) =>
               Len(Writes(t)) = Len(Fetches(t))
        /\ (Returned(t) /\ \A i \in 1..Len(Writes(t)) : Writes(t)[i] = "conflict") =>
               /\ Len(Fetches(t)) = 3
               /\ Len(Writes(t)) = 3
               /\ ret[t] = "False"

C3_Witness ==
    \E t \in Threads :
        /\ Returned(t)
        /\ Writes(t) = <<"conflict", "conflict", "conflict">>
        /\ Fetches(t) = <<"fetch_found", "fetch_found", "fetch_found">>
        /\ ret[t] = "False"

\* C4: once a write is rejected with a status that is no conflict, the call
\* makes no further fetch or write and no wait: the rejection is the last
\* step it made, and it has returned False.
C4_HardErrorStopsAtOnce ==
    \A t \in Threads :
        (\E i \in 1..Len(trace[t]) : trace[t][i] = "error") =>
            /\ trace[t][Len(trace[t])] = "error"
            /\ Returned(t)
            /\ ret[t] = "False"
            /\ (Len(Writes(t)) = 1 => Len(Fetches(t)) = 1 /\ Sleeps(t) = <<>>)

C4_Witness ==
    \E t \in Threads :
        /\ Writes(t) = <<"error">>
        /\ Len(Fetches(t)) = 1
        /\ Sleeps(t) = <<>>
        /\ ret[t] = "False"

\* C5: a call that returned True had exactly one write accepted, the accepted
\* content is the content of that attempt's fetch (csv_data, ended by a line
\* break) followed by this call's row, and the file's token after the write
\* differs from the token that fetch observed.  (The records are compared in
\* the state the write leads to, when it is the last accepted write.)
\* (What the fetch returned is csv_data when it found the file, and nothing
\* when it found none.)
C5_Fetched(c) ==
    IF ~c.exists THEN <<>>
    ELSE IF EndsWithNewline(c.data) THEN c.data
    ELSE c.data \o <<NL>>

C6_HeaderRowARowB ==
    ( /\ ~initial.exists
      /\ Len(commits) = 2
      /\ commits[1].by = "A"
      /\ commits[2].by = "B"
      /\ commits[2].data = commits[1].content )
    => ParseCsv(remote.content)
          = <<HEADER_FIELDS, new_row_list("A"), new_row_list("B")>>

C8_AlwaysReturnsResult ==
    \A t \in Threads :
        /\ pc[t] # "raised"
        /\ ret[t] \in {"none", "True", "False"}
        /\ ret[t] = "True" => CommitsBy(t) # <<>>

\* C9: a row written by writer.writerow and read back as CSV is one record
\* with the original field values, whatever commas, quotes and line breaks
\* the fields hold: the number of records and of fields is unchanged.
C9_RoundTrip ==
    rt_pc = "parsed" =>
        /\ row_back = <<row_in>>
        /\ Len(row_back[1]) = 6

C9_Witness ==
    /\ rt_pc = "parsed"
    /\ row_in[2] = <<"a", COMMA, QUOTE>>
    /\ row_in[5] = <<NL>>
    /\ row_back = <<row_in>>

\* C10: the file holds the header row at most once, and no accepted write on
\* an existing file adds a header row: what such a write adds after the
\* content that was there is one record, and it is not the header.
C10_Added(c) == SubSeq(c.content, Len(c.before.content) + 1, Len(c.content))

C10_HeaderAtMostOnce ==
    /\ remote.exists => Occurrences(HEADER_FIELDS, remote.content) <= 1
    /\ (commits # <<>> /\ commits[Len(commits)].before.exists) =>
           LET c == commits[Len(commits)]
           IN  /\ SubSeq(c.content, 1, Len(c.before.content)) = c.before.content
               /\ ParseCsv(C10_Added(c)) = <<c.row>>
               /\ c.row # HEADER_FIELDS

C10_Witness ==
    /\ initial.exists
    /\ \E t \in Threads : Len(CommitsBy(t)) = 1
    /\ Len(commits) >= 2
    /\ Occurrences(HEADER_FIELDS, remote.content) = 1

\* C11: in handle_confirmation the event is acknowledged before the append's
\* first fetch or write; the append runs in a background thread, one per
\* confirmation event, and the handler has returned by the time the thread
\* exists, whatever the append is doing.
C11_AckBeforeAppendInOwnThread ==
    \A t \in Threads :
        /\ handler[t].threads <= 1
        /\ (pc[t] # "idle" \/ trace[t] # <<>>) =>
              (handler[t].acked /\ handler[t].threads = 1)
        /\ handler[t].threads = 1 => (handler[t].acked /\ HandlerOver(t))

\* The handler has returned while its append waits for the answer to a write.
C11_Witness ==
    \E t \in Threads :
        /\ HandlerOver(t) /\ handler[t].acked
        /\ pc[t] = "write"
        /\ trace[t] # <<>>

\* The text a write over fetched data has to carry.
C12_Expected(data, row) ==
    data \o (IF data # <<>> /\ data[Len(data)] = NL THEN <<>> ELSE <<NL>>)
         \o JoinFields(row) \o LineTerminator

\* C12: a write against an existing file carries the content fetched in that
\* attempt, a newline only when that content does not end with one, then one
\* serialized row and its line terminator; with append calls as the only
\* writers every accepted write keeps the records of the file as they were and
\* adds one record at the end.
C12_WritesExtendFetchedContent ==
    /\ \A t \in Threads :
          (pc[t] = "write" /\ file_exists[t]) =>
              IssuedContent(t) = C12_Expected(csv_data[t], new_row_list(t))
    /\ commits # <<>> =>
          LET c == commits[Len(commits)]
          IN  /\ remote = File(c.content)
              /\ c.before.exists =>
                    /\ c.exists
                    /\ c.data = c.before.content
                    /\ c.content = C12_Expected(c.before.content, c.row)
                    /\ ParseCsv(c.content) = ParseCsv(c.before.content) \o <<c.row>>

\* Both calls have written, the second over the file the first left, and the
\* file began without a newline at its end.
C12_Witness ==
    /\ Len(commits) = 2
    /\ initial.exists /\ ~EndsWithNewline(initial.content)
    /\ commits[1].by # commits[2].by
    /\ commits[2].before = File(commits[1].content)

\* The call fetched the file as absent in its first attempt.
C13_FetchedAbsent(t) == Fetches(t) # <<>> /\ Fetches(t)[1] = "fetch_none"

\* The call that fetched the file as absent and whose create was not the one
\* accepted.
C13_Loser(t) ==
    /\ C13_FetchedAbsent(t)
    /\ Writes(t) # <<>>
    /\ commits # <<>> /\ commits[1].by # t

\* C13: when two appends both fetch the file as absent before either writes,
\* one create is accepted and no second one: every later accepted write is an
\* update that keeps the content before it as its prefix, so the winner's row
\* is never overwritten; the loser's create is rejected, after a conflict the
\* loser waits and fetches again, after another rejection it returns False,
\* and whoever returns True has its row in the file.
C13_OneCreateWins ==
    /\ \A i \in 1..Len(commits) :
          IF i = 1 THEN commits[i].before = initial
          ELSE /\ commits[i].exists
               /\ commits[i].before = File(commits[i-1].content)
               /\ SubSeq(commits[i].content, 1, Len(commits[i-1].content))
                      = commits[i-1].content
    /\ \A t \in Threads :
          /\ C13_Loser(t) =>
                /\ Writes(t)[1] # "accepted"
                /\ \A i \in 1..Len(trace[t]) :
                      /\ (trace[t][i] = "conflict" /\ i < Len(trace[t])) =>
                              trace[t][i+1] = "sleep"
                      /\ (trace[t][i] = "sleep" /\ i < Len(trace[t])) =>
                              IsFetch(trace[t][i+1])
                      /\ trace[t][i] = "error" =>
                              (i = Len(trace[t]) /\ pc[t] = "done" /\ ret[t] = "False")
          /\ (C13_FetchedAbsent(t) /\ ret[t] = "True") =>
                Occurrences(new_row_list(t), remote.content) = 1

\* Both calls fetched the file as absent; one create was accepted, the other
\* answered with a conflict, and the loser wrote its row after a new fetch.
C13_Witness ==
    \E t \in Threads, u \in Threads :
        /\ t # u
        /\ ~initial.exists
        /\ C13_FetchedAbsent(t) /\ C13_FetchedAbsent(u)
        /\ commits # <<>> /\ commits[1].by = u /\ ~commits[1].exists
        /\ C13_Loser(t) /\ Writes(t)[1] = "conflict"
        /\ ret[t] = "True" /\ ret[u] = "True"

\* What one step does to the call of t, as far as its fetched data go.
C14_Step(t) ==
    /\ (pc[t] # "write" /\ pc'[t] = "write") =>
          /\ pc[t] = "fetch"
          /\ IF file_exists'[t]
             THEN /\ remote.exists
                  /\ sha'[t] = BlobSha(remote.content)
                  /\ csv_data'[t] = remote.content
             ELSE /\ sha'[t] = None
                  /\ trace'[t][Len(trace'[t])] \in {"fetch_none", "fetch_failed"}
    /\ pc[t] # "fetch" =>
          /\ sha'[t] = sha[t]
          /\ csv_data'[t] = csv_data[t]
          /\ file_exists'[t] = file_exists[t]
    /\ (pc[t] = "sleep" /\ pc'[t] # "sleep") => pc'[t] \in {"fetch", "done"}
    /\ (pc[t] = "write" /\ pc'[t] # "write") =>
          /\ trace'[t] = Append(trace[t], trace'[t][Len(trace'[t])])
          /\ IsFetch(trace[t][Len(trace[t])])
          /\ trace'[t][Len(trace'[t])] = "accepted" =>
                LET c == commits'[Len(commits')]
                IN  /\ c.by = t
                    /\ c.exists = file_exists[t]
                    /\ c.exists => (c.sha = sha[t] /\ c.sha = BlobSha(c.before.content))

LastEvent(t) == trace[t][Len(trace[t])]

\* C15: only a fetch that reports the file as absent is treated as first use;
\* a fetch that fails for another reason while the file exists does not make
\* the call issue a create: no call stands at a create (no token, file taken
\* as absent) after a fetch that failed on an existing file.
C15_OnlyNotFoundIsFirstUse ==
    \A t \in Threads :
        (pc[t] = "write" /\ ~file_exists[t]) => LastEvent(t) # "fetch_failed"

\* C16: a wait occurs only right after a write rejected as a conflict and is
\* always followed by a new attempt starting at the fetch; a call does not
\* wait after the conflict of its last attempt, before it returns False.
C16_NoWaitBeforeGivingUp ==
    \A t \in Threads :
        /\ \A i \in 1..Len(trace[t]) :
              trace[t][i] = "sleep" => (i > 1 /\ trace[t][i-1] = "conflict")
        /\ (Returned(t) /\ trace[t] # <<>>) => LastEvent(t) # "sleep"

\* C17: for every confirmation event the end of its append is followed by
\* exactly one report that matches the result: Logged iff the append returned
\* True, Failed iff it returned False; an append that is over and failed is
\* never left without a report.
C17_OneReportMatchingResult ==
    \A t \in Threads :
        /\ Len(report[t]) <= 1
        /\ report[t] # <<>> =>
              /\ pc[t] = "done"
              /\ report[t][1] = "Logged" <=> ret[t] = "True"
              /\ report[t][1] = "Failed" <=> ret[t] = "False"
        /\ pc[t] = "raised" => report[t] # <<>>

\* The accepted writes of append calls that came after the load of the
\* dashboard and before its own accepted write.
C18_Between ==
    {i \in (dash.loadedAt + 1)..(Len(commits) - 1) : commits[i].by \in Threads}

\* C18: the dashboard's save writes content derived from the data it loaded
\* earlier, under a token fetched at save time: when the save is accepted the
\* file is that content, and every row an append call wrote between the load
\* and the save is gone from it, although that call returned True and the
\* dashboard returned True, neither having been told of a stale token.
C18_SaveOverwritesAppends ==
    /\ dash.pc = "update" =>
          /\ dash.sha = BlobSha(dash.seen.content)
          /\ \E df \in DfToSave(LoadData(dash.loaded)) : dash.content = ToCsv(df)
    /\ (dash.ret = "True" /\ commits[Len(commits)].by = "dashboard") =>
          /\ remote = File(dash.content)
          /\ \A i \in C18_Between :
                /\ ret[commits[i].by] = "True"
                /\ LastEvent(commits[i].by) = "accepted"
                /\ Occurrences(commits[i].row, remote.content) = 0

\* An append call wrote its row after the dashboard had loaded, returned
\* True, and the dashboard's accepted save has removed the row.
C18_Witness ==
    /\ dash.ret = "True"
    /\ commits # <<>> /\ commits[Len(commits)].by = "dashboard"
    /\ \E i \in C18_Between :
          /\ ret[commits[i].by] = "True"
          /\ Occurrences(commits[i].row, commits[i].content) = 1
          /\ Occurrences(commits[i].row, remote.content) = 0

C19_Conflicts(t) == Len(SelectSeq(trace[t], LAMBDA e : e = "conflict"))

\* No call has had more conflicts than writes of others were accepted while
\* it ran, and once the three calls are over each has returned True and the
\* file is the initial content followed by each of the three rows once.
C19_Safe ==
    /\ \A t \in ThreeThreads : C19_Conflicts(t) <= during[t]
    /\ (\A t \in ThreeThreads : pc[t] = "done") =>
          /\ \A t \in ThreeThreads : ret[t] = "True"
          /\ SubSeq(remote.content, 1, Len(initial.content)) = initial.content
          /\ Len(ParseCsv(remote.content)) =
                 Len(ParseCsv(initial.content)) + Cardinality(ThreeThreads)
          /\ \A t \in ThreeThreads :
                Occurrences(new_row_list(t), remote.content) = 1

C19_AllSucceeded == \A t \in ThreeThreads : pc[t] = "done" /\ ret[t] = "True"

\* C19: a call has at most as many conflicts as there are writes of other
\* writers accepted during its execution; so with three concurrent calls on
\* an existing file, no other writer, no hard errors and fair scheduling,
\* every call eventually returns True and the final file holds the initial
\* content and each of the three rows exactly once.
C19_ThreeCallsAllSucceed == []C19_Safe /\ <>C19_AllSucceeded

\* The three calls have returned True and one of them met two conflicts, as
\* many as there are other calls.
C19_Witness ==
    /\ C19_AllSucceeded
    /\ \E t \in ThreeThreads : C19_Conflicts(t) = 2 /\ during[t] = 2

\* C20: when a call returns False, on conflict exhaustion or on a hard error,
\* none of its writes was accepted: it made no commit, every write it issued
\* was answered with a refusal, and its row is not in the file.
C20_FailureWroteNothing ==
    \A t \in Threads :
        ret[t] = "False" =>
            /\ CommitsBy(t) = <<>>
            /\ \A i \in 1..Len(Writes(t)) : Writes(t)[i] \in {"conflict", "error"}
            /\ remote.exists => Occurrences(new_row_list(t), remote.content) = 0

\* One call returned False after a refused write while the other call's row
\* was written.
C20_Witness ==
    \E t \in Threads, u \in Threads :
        /\ t # u
        /\ ret[t] = "False" /\ Writes(t) # <<>>
        /\ ret[u] = "True" /\ CommitsBy(u) # <<>>
        /\ Occurrences(new_row_list(u), remote.content) = 1

====
